---- MODULE Spec2Model ----
(***************************************************************************)
(* State-machine model of hyperapp-custom-element: the dispatch           *)
(* interceptor (wrapDispatch), the attribute synchroniser                 *)
(* (syncAttributes / syncAttribute / attributeChangedCallback), the       *)
(* property and method surface, and the two event effects.                *)
(*                                                                         *)
(* One host operation (a property write, an attribute write or removal,   *)
(* a method call) is one action.  Everything the operation triggers       *)
(* synchronously - the transition, its effects, the outward sync, the     *)
(* attribute-change notifications the sync causes and the transitions     *)
(* those cause - is computed inside the action, on a machine record m.    *)
(* The variable log keeps what happened inside the last operation.        *)
(***************************************************************************)
EXTENDS Integers, Sequences, FiniteSets, TLC

VARIABLES
  hs,       \* the state held by the Hyperapp runtime
  snap,     \* this._state, the instance's snapshot
  attrs,    \* the element's observed attributes: name -> Null (absent) or a string
  lst,      \* the element's event listeners, in registration order: <<type, callback>>
  disp,     \* TRUE while this._dispatch refers to the runtime's dispatch
  log,      \* what happened inside the last host operation
  last,     \* the last host operation
  outcome,  \* "ok" or the exception the last host operation ended with
  over,     \* TRUE when a cascade was cut at MaxDepth nested notifications
  scn,      \* position in the documented scenarios, counted from construction
  clean,    \* TRUE while every write to the handler field was a callable or null property write
  run,      \* TRUE until the runtime was given a null or undefined state, which halts it
  def,      \* the options of the definition the class was generated from
  frag,     \* this._fragment: "undefined", or a fragment that is "full" or "empty"
  kids,     \* the number of child nodes of the instance (its light DOM)
  conn,     \* TRUE while the host has the instance in a document
  config,   \* the exposedConfig handed to generateClass
  gen,      \* what generateClass made of it
  probe,    \* the last attribute name looked up, and the descriptor found
  peer,     \* a second instance of the same class: its own hs, snap, attrs, lst, ...
  shared,   \* the function held by an effect tuple that the definition's module creates once
  chain     \* a use of chainActions: its arguments, the array originalAction keeps, the state

vars ==
  <<hs, snap, attrs, lst, disp, log, last, outcome, over, scn, clean, run, def, frag, kids, conn,
    config, gen, probe, peer, shared, chain>>

(***************************************************************************)
(* Bounds.                                                                 *)
(***************************************************************************)
\* Nested attribute-change notifications followed inside one host operation.
MaxDepth == 6
\* Distinct function objects compiled from inline handler strings that can be alive at once.
MaxFn == 3
\* Descriptors in an exposedConfig handed to generateClass.
MaxDescs == 2
\* Invocations of a chained action that are followed.
MaxChain == 3

(***************************************************************************)
(* JavaScript values.  t is the typeof tag, s the string form of a        *)
(* primitive (or the identity of a function), o the own properties of an  *)
(* object in insertion order, as <<key, value>> pairs.                     *)
(***************************************************************************)
Val(t, s) == [t |-> t, s |-> s, o |-> <<>>]
Undef == Val("undefined", "undefined")
Null == Val("null", "null")
True == Val("boolean", "true")
False == Val("boolean", "false")
Num(s) == Val("number", s)
Str(s) == Val("string", s)
Fn(s) == Val("function", s)
Obj(pairs) == [t |-> "object", s |-> "", o |-> pairs]
\* The component instance, as a receiver (this).
Instance == [t |-> "object", s |-> "instance", o |-> <<>>]
\* A second instance of the same class.
Other == [t |-> "object", s |-> "other", o |-> <<>>]

Bool(b) == IF b THEN True ELSE False

\* String(v), as setAttribute applies it to its value argument.
ToStr(v) == Str(v.s)

\* ToBoolean(v).
Truthy(v) ==
  CASE v.t = "boolean" -> v.s = "true"
    [] v.t = "number" -> v.s \notin {"0", "NaN"}
    [] v.t = "string" -> v.s # ""
    [] v.t \in {"undefined", "null"} -> FALSE
    [] OTHER -> TRUE

IsObj(v) == v.t = "object"

Has(ob, k) == IsObj(ob) /\ \E i \in 1..Len(ob.o) : ob.o[i][1] = k

\* ob[k]: undefined for a key the object does not have.
Get(ob, k) ==
  IF Has(ob, k) THEN ob.o[CHOOSE i \in 1..Len(ob.o) : ob.o[i][1] = k][2] ELSE Undef

\* The keys of an object in enumeration (insertion) order; none for undefined or null.
Keys(ob) == IF IsObj(ob) THEN [i \in 1..Len(ob.o) |-> ob.o[i][1]] ELSE <<>>

\* A copy of ob with k set to v: an existing key keeps its place, a new one goes last.
Put(ob, k, v) ==
  IF Has(ob, k)
  THEN Obj([i \in 1..Len(ob.o) |-> IF ob.o[i][1] = k THEN <<k, v>> ELSE ob.o[i]])
  ELSE Obj(Append(IF IsObj(ob) THEN ob.o ELSE <<>>, <<k, v>>))

RECURSIVE SpreadFrom(_, _, _)
SpreadFrom(ob, props, i) ==
  IF i > Len(Keys(props)) THEN ob
  ELSE SpreadFrom(Put(ob, props.o[i][1], props.o[i][2]), props, i + 1)

\* { ...state, ...props }: spreading undefined or null adds nothing.
Spread(state, props) == SpreadFrom(Obj(IF IsObj(state) THEN state.o ELSE <<>>), props, 1)

(***************************************************************************)
(* The component definition that is modelled.                              *)
(***************************************************************************)
\* A descriptor of exposedConfig; getter names the getter it supplies ("": none).
Desc(a, p, e) == [attrName |-> a, propName |-> p, eventType |-> e, getter |-> ""]
WithGetter(cfg, g) == [cfg EXCEPT !.getter = g]
NoDesc == Desc("", "", "")

\* exposedConfig: a numeric field, a boolean field, an on<event> field, a field with a
\* getter of its own, and an attribute without a property.
exposedConfig ==
  << Desc("count-x", "countX", ""),
     Desc("hidden", "hidden", ""),
     Desc("onfoo", "onfoo", "Foo"),
     WithGetter(Desc("the-thing", "theThing", ""), "getTheThing"),
     Desc("label", "", "") >>

\* init: the handler field is not part of the initial state.
InitState == Obj(<< <<"countX", Num("0")>>, <<"hidden", False>> >>)

\* String.prototype.toLowerCase on the attribute names that occur.
ToLowerCase(s) ==
  CASE s = "Count-X" -> "count-x"
    [] s = "Hidden" -> "hidden"
    [] s = "OnFoo" -> "onfoo"
    [] OTHER -> s

\* generateMaps: the index of the last descriptor with that propName (Map.set overwrites).
PropNames == {exposedConfig[i].propName : i \in 1..Len(exposedConfig)} \ {""}
AttrNames == {ToLowerCase(exposedConfig[i].attrName) : i \in 1..Len(exposedConfig)} \ {ToLowerCase("")}

MaxOf(S) == CHOOSE x \in S : \A y \in S : y <= x
MinOf(S) == CHOOSE x \in S : \A y \in S : x <= y

\* Maps keyed by the attribute names as the descriptors spell them.
generateMapsNoFold(cfgs) ==
  [props |-> [p \in {cfgs[i].propName : i \in 1..Len(cfgs)} \ {""} |->
                cfgs[MaxOf({i \in 1..Len(cfgs) : cfgs[i].propName = p})]],
   attrs |-> [a \in {cfgs[i].attrName : i \in 1..Len(cfgs)} \ {""} |->
                cfgs[MaxOf({i \in 1..Len(cfgs) : cfgs[i].attrName = a})]]]

\* generateMaps over a list of descriptors: props by propName, attrs by lower-cased
\* attrName; a descriptor with neither name enters neither map.
generateMaps(cfgs) ==
  [props |-> [p \in {cfgs[i].propName : i \in 1..Len(cfgs)} \ {""} |->
                cfgs[MaxOf({i \in 1..Len(cfgs) : cfgs[i].propName = p})]],
   attrs |-> [a \in {ToLowerCase(cfgs[i].attrName) : i \in {j \in 1..Len(cfgs) : cfgs[j].attrName # ""}} |->
                cfgs[MaxOf({i \in 1..Len(cfgs) :
                              cfgs[i].attrName # "" /\ ToLowerCase(cfgs[i].attrName) = a})]]]

exposedProps == generateMaps(exposedConfig).props

exposedAttrs == generateMaps(exposedConfig).attrs

\* generateClass, as far as the descriptors go: nothing in it rejects a descriptor, so a
\* class comes out of every list.
generateClass(cfgs) == [class |-> "generated", maps |-> generateMaps(cfgs)]
NotGenerated == [class |-> "none", maps |-> generateMaps(<<>>)]

\* static get observedAttributes: the keys of the attrs map.
observedAttributes(g) == DOMAIN g.maps.attrs

\* The lookup attributeChangedCallback makes for the name it is given.
LookupAttr(g, attrName) ==
  IF ToLowerCase(attrName) \in DOMAIN g.maps.attrs THEN g.maps.attrs[ToLowerCase(attrName)] ELSE NoDesc
NoProbe == [name |-> "", cfg |-> NoDesc]

\* Functions that are dispatched: f names the function, d the descriptor a generated
\* setter closes over, bound the receiver it has been bound to (undefined: unbound), and
\* wrapped the value of its "$isWrapped" property (undefined: it has none).
Fun(f, d) == [f |-> f, d |-> d, bound |-> Undef, wrapped |-> Undef]
NoFun == Fun("", NoDesc)

\* generateMaps: the setter a descriptor without one is given.
SetterOf(cfg) ==
  IF cfg.eventType # "" THEN Fun("SetOnEventHandler", cfg) ELSE Fun("PatchState", NoDesc)

\* exposedMethods.
exposedMethods ==
  [fire |-> Fun("Fire", NoDesc), forget |-> Fun("Forget", NoDesc), ping |-> Fun("Ping", NoDesc),
   boom |-> Fun("Boom", NoDesc)]
MethodNames == DOMAIN exposedMethods

\* The options of generateClass that vary between definitions: useShadowDOM, the class
\* that is extended, and whether a dispatch initialiser is supplied.
Definition(shadow, parent, dispatch) == [useShadowDOM |-> shadow, parent |-> parent, dispatch |-> dispatch]
\* The defaults of generateClass.
DefaultDef == Definition(TRUE, "HTMLElement", FALSE)
Definitions ==
  {Definition(s, p, d) : s \in BOOLEAN, p \in {"HTMLElement", "HTMLButtonElement"}, d \in BOOLEAN}

(***************************************************************************)
(* The machine a host operation runs on, and the log of what it did.       *)
(***************************************************************************)
\* e: the kind of entry; n: a name; u, v, w: values (see each use).
Ev(e, n, u, v, w) == [e |-> e, n |-> n, u |-> u, v |-> v, w |-> w]
\* The element of a one-element set.  The({F(x) : x \in {e}}) is F(e) with e evaluated
\* once, which is how the result of a nested dispatch is handed on below.
The(S) == CHOOSE r \in S : TRUE
Logged(m, ev) == [m EXCEPT !.log = Append(@, ev)]
Throw(m, x) == [m EXCEPT !.exc = x]
Failed(m) == m.exc # "none"

\* Dispatch arguments, by the shape the interceptor tells apart.
ArgFn(fn, props) == [shape |-> "fn", fn |-> fn, props |-> props, state |-> Undef, effects |-> <<>>]
ArgPair(fn, props) == [shape |-> "pair", fn |-> fn, props |-> props, state |-> Undef, effects |-> <<>>]
ArgTuple(state, effects) == [shape |-> "tuple", fn |-> NoFun, props |-> Undef, state |-> state, effects |-> effects]
ArgState(state) == [shape |-> "state", fn |-> NoFun, props |-> Undef, state |-> state, effects |-> <<>>]
\* An effect tuple [fn, props]; ref names the tuple object when it is one that outlives
\* the transition that returns it ("": a tuple made by that transition).
Fx(fn, props) == [fn |-> fn, props |-> props, ref |-> ""]

(***************************************************************************)
(* The element's DOM surface (the host platform).                          *)
(***************************************************************************)
\* A callback argument that is neither null/undefined nor an object is a TypeError (WebIDL).
IsCallbackObject(v) == v.t \in {"function", "object"}

AddEventListener(m, type, cb) ==
  IF cb.t \in {"undefined", "null"} THEN m
  ELSE IF ~IsCallbackObject(cb) THEN Throw(m, "TypeError")
  ELSE IF \E i \in 1..Len(m.lst) : m.lst[i] = <<type, cb>> THEN m
  ELSE [m EXCEPT !.lst = Append(@, <<type, cb>>)]

RemoveEventListener(m, type, cb) ==
  IF cb.t \in {"undefined", "null"} THEN m
  ELSE IF ~IsCallbackObject(cb) THEN Throw(m, "TypeError")
  ELSE [m EXCEPT !.lst = SelectSeq(@, LAMBDA l : l # <<type, cb>>)]

\* The identities of the compiled handlers, and the function objects still referenced.
CompiledIds == <<"c1", "c2", "c3", "c4", "c5">>
FnsIn(ob) == {ob.o[i][2].s : i \in {j \in 1..Len(Keys(ob)) : ob.o[j][2].t = "function"}}
LiveFns(m) == FnsIn(m.hs) \cup FnsIn(m.snap) \cup {m.lst[i][2].s : i \in 1..Len(m.lst)}
FreeIds(m) == {i \in 1..MaxFn : CompiledIds[i] \notin LiveFns(m)}

\* Source strings `new Function` rejects with a SyntaxError.
BadSources == {"("}
Compiles(src) == src \notin BadSources

(***************************************************************************)
(* Exposed property read.                                                  *)
(***************************************************************************)
\* The getter of the-thing: (state) => '#' + state.theThing.
getTheThing(state) ==
  IF state.t \in {"undefined", "null"} THEN Undef ELSE Str("#" \o Get(state, "theThing").s)

\* cfg.getter || ((state) => state?.[propName]), applied to a state.
GetterValue(cfg, propName, state) ==
  IF cfg.getter = "getTheThing" THEN getTheThing(state) ELSE Get(state, propName)

\* getProperty: the descriptor's getter, or state?.[propName], over the snapshot.
GetProperty(m, propName) == GetterValue(exposedProps[propName], propName, m.snap)

(***************************************************************************)
(* Transition functions.  Each returns [exc, over, arg, mutated]: the      *)
(* exception it throws (or "none"), the value it returns, as a dispatch    *)
(* argument, and whether it wrote into the state object it was given       *)
(* instead of building a new one.                                          *)
(***************************************************************************)
Ret(arg) == [exc |-> "none", over |-> FALSE, arg |-> arg, mutated |-> FALSE]
Raise(x) == [exc |-> x, over |-> FALSE, arg |-> ArgState(Undef), mutated |-> FALSE]

\* A patch that returns the state it was given.
PatchStateKeepsState(state, props) == Ret(ArgState(state))

\* A patch that assigns the properties to the state object it was given and returns it.
PatchStateInPlace(state, props) == [Ret(ArgState(Spread(state, props))) EXCEPT !.mutated = TRUE]

PatchState(state, props) == Ret(ArgState(Spread(state, props)))

\* generateOnEventSetter(cfg): SetOnEventHandler(state, props).
SetOnEventHandler(m, cfg, state, props) ==
  LET name == IF cfg.propName # "" THEN cfg.propName ELSE cfg.attrName
      raw == Get(props, name)
      compile == Truthy(raw) /\ raw.t # "function"
      handler == IF compile THEN Fn(CompiledIds[MinOf(FreeIds(m))]) ELSE raw
      oldHandler == Get(state, name)
      effect == Fx(Fun("setOnEventListenerEffect", NoDesc),
                   Obj(<< <<"eventType", Str(cfg.eventType)>>,
                          <<"oldVal", oldHandler>>,
                          <<"newVal", handler>> >>))
  IN IF compile /\ ~Compiles(ToStr(raw).s) THEN Raise("SyntaxError")
     ELSE IF compile /\ FreeIds(m) = {} THEN [Raise("none") EXCEPT !.over = TRUE]
     ELSE IF state.t \in {"undefined", "null"} THEN Raise("TypeError")
     ELSE Ret(ArgTuple(Put(state, name, handler), <<effect>>))

\* The action behind the exposed method `fire`: resets the counter and fires Foo.
Fire(state) ==
  Ret(ArgTuple(Put(state, "countX", Num("0")),
               << Fx(Fun("dispatchEventEffect", NoDesc),
                     Obj(<< <<"eventType", Str("Foo")>>, <<"eventInit", Undef>> >>)) >>))

\* A copy of ob without the key k.
Without(ob, k) ==
  LET keep == {i \in 1..Len(ob.o) : ob.o[i][1] # k}
      nth(j) == CHOOSE i \in keep : Cardinality({h \in keep : h < i}) = j - 1
  IN Obj([j \in 1..Cardinality(keep) |-> ob.o[nth(j)]])

\* The action behind the exposed method `forget`: ({ hidden, ...rest }) => rest.
Forget(state) ==
  IF state.t \in {"undefined", "null"} THEN Raise("TypeError") ELSE Ret(ArgState(Without(state, "hidden")))

\* The action behind the exposed method `ping`, in a module that makes its effect tuple
\* once: const fireFoo = dispatchEvent('Foo'); const Ping = (state) => [state, fireFoo].
\* m.shared is the function fireFoo[0] holds at the moment.
Ping(m, state) ==
  Ret(ArgTuple(state,
               << [fn |-> m.shared,
                   props |-> Obj(<< <<"eventType", Str("Foo")>>, <<"eventInit", Undef>> >>),
                   ref |-> "fireFoo"] >>))

\* The action behind the exposed method `boom`: it sets the counter to 9 and returns,
\* with the new state, an effect whose runner throws:
\* (state) => [{ ...state, countX: 9 }, [() => { throw new Error() }, {}]].
Boom(state) ==
  Ret(ArgTuple(Put(state, "countX", Num("9")), << Fx(Fun("failEffect", NoDesc), Obj(<<>>)) >>))

RunAction(m, fn, state, props) ==
  CASE fn.f = "PatchState" -> PatchState(state, props)
    [] fn.f = "Boom" -> Boom(state)
    [] fn.f = "Ping" -> Ping(m, state)
    [] fn.f = "Forget" -> Forget(state)
    [] fn.f = "SetOnEventHandler" -> SetOnEventHandler(m, fn.d, state, props)
    [] fn.f = "Fire" -> Fire(state)
    [] OTHER -> Raise("TypeError")

(***************************************************************************)
(* Event listeners supplied by the host.  A reads the exposed property     *)
(* countX of the instance it is invoked on; every other callable (B, and   *)
(* the functions compiled from inline handler strings) reads nothing.      *)
(* tstate is the state of the transition whose effect fired the event.     *)
(***************************************************************************)
InvokeListener(m, type, cb, tstate) ==
  LET m1 == Logged(m, Ev("invoke", type, Undef, cb, m.self))
  IN IF cb.s = "A"
     THEN Logged(m1, Ev("read", "countX", Undef, GetProperty(m1, "countX"), Get(tstate, "countX")))
     ELSE m1

RECURSIVE InvokeFrom(_, _, _, _, _)
InvokeFrom(m, ls, i, type, tstate) ==
  LET From(x) ==
        IF i > Len(ls) THEN x
        ELSE InvokeFrom(IF ls[i][1] = type THEN InvokeListener(x, type, ls[i][2], tstate) ELSE x,
                        ls, i + 1, type, tstate)
  IN The({From(x) : x \in {m}})

\* element.dispatchEvent(new CustomEvent(type)): the listeners registered when it is fired.
DispatchEvent(m, type, tstate) == InvokeFrom(Logged(m, Ev("event", type, Undef, Undef, Undef)), m.lst, 1, type, tstate)

(***************************************************************************)
(* The two effects.  An effect that was not bound has no receiver, and     *)
(* its use of this.addEventListener / this.dispatchEvent is a TypeError.   *)
(***************************************************************************)
\* A listener sync that adds the new handler without removing the old one.
SetOnEventListenerEffectKeepsOld(m, props) ==
  LET type == Get(props, "eventType").s
      newVal == Get(props, "newVal")
  IN IF newVal # Null THEN AddEventListener(m, type, newVal) ELSE m

setOnEventListenerEffect(m, props) ==
  LET type == Get(props, "eventType").s
      oldVal == Get(props, "oldVal")
      newVal == Get(props, "newVal")
      m1 == IF oldVal # Null THEN RemoveEventListener(m, type, oldVal) ELSE m
  IN IF Failed(m1) THEN m1
     ELSE IF newVal # Null THEN AddEventListener(m1, type, newVal) ELSE m1

dispatchEventEffect(m, props, tstate) == DispatchEvent(m, Get(props, "eventType").s, tstate)

\* The machine seen from the other instance: the two instances change places, and the
\* log and the exception of the operation under way stay.
Swap(m) ==
  [m EXCEPT !.hs = m.peer.hs, !.snap = m.peer.snap, !.attrs = m.peer.attrs, !.lst = m.peer.lst,
            !.disp = m.peer.disp, !.run = m.peer.run, !.def = m.peer.def, !.frag = m.peer.frag,
            !.kids = m.peer.kids, !.self = m.peer.self,
            !.peer = [hs |-> m.hs, snap |-> m.snap, attrs |-> m.attrs, lst |-> m.lst,
                      disp |-> m.disp, run |-> m.run, def |-> m.def, frag |-> m.frag,
                      kids |-> m.kids, self |-> m.self]]

\* The body of an effect, run on the machine of its receiver.
EffectBody(m, fx, tstate) ==
  CASE fx.fn.f = "setOnEventListenerEffect" -> setOnEventListenerEffect(m, fx.props)
    [] fx.fn.f = "dispatchEventEffect" -> dispatchEventEffect(m, fx.props, tstate)
    [] fx.fn.f = "failEffect" -> Throw(m, "Error")
    [] OTHER -> Throw(m, "TypeError")

\* An effect runs with the receiver its function was bound to: this.dispatchEvent and
\* this.addEventListener act on that element, which is the instance whose interceptor
\* bound it first.
RunEffect(m, fx, tstate) ==
  LET m1 == Logged(m, Ev("effect", fx.fn.f, Undef, fx.fn.bound, fx.props))
  IN IF fx.fn.bound = Undef THEN Throw(m1, "TypeError")
     ELSE IF fx.fn.bound = m.self THEN EffectBody(m1, fx, tstate)
     ELSE Swap(EffectBody(Swap(m1), fx, tstate))

RECURSIVE RunEffects(_, _, _, _)
RunEffects(m, fxs, i, tstate) ==
  LET From(x) ==
        IF i > Len(fxs) \/ Failed(x) THEN x
        ELSE RunEffects(RunEffect(x, fxs[i], tstate), fxs, i + 1, tstate)
  IN The({From(x) : x \in {m}})

(***************************************************************************)
(* The Hyperapp runtime's dispatch, the interceptor that wraps it, and the *)
(* attribute synchroniser.  They call each other: the runtime hands what   *)
(* an action returns to the interceptor, the interceptor forwards to the   *)
(* runtime and then syncs, a synced attribute notifies the instance, and   *)
(* the notification dispatches the descriptor's setter.  n counts the      *)
(* nested notifications still allowed.                                     *)
(***************************************************************************)
RECURSIVE Native(_, _, _)
RECURSIVE InnerDispatch(_, _, _)
RECURSIVE newDispatch(_, _, _)
RECURSIVE syncFrom(_, _, _, _)
RECURSIVE attributeChangedCallback(_, _, _, _, _)

\* The runtime replaces its state; a null or undefined state halts it, and from then on
\* what it would dispatch again is dropped.
Update(m, newState) ==
  [m EXCEPT !.hs = newState, !.run = @ /\ newState.t \notin {"undefined", "null"}]

\* The runtime's own dispatch, the function wrapDispatch is given: an action is called
\* as a plain function on the runtime's state and what it returns is dispatched through
\* the interceptor; a state is stored and the effects that come with it are run.
Native(m, a, n) ==
  CASE a.shape = "fn" ->
         LET m1 == Logged(m, Ev("call", a.fn.f, m.hs, a.fn.bound, a.props))
             \* what the state object given to the action holds when the action returns
             left(r) == IF r.mutated THEN r.arg.state ELSE m.hs
             m2(r) == Logged([m1 EXCEPT !.hs = left(r)], Ev("result", a.fn.f, left(r), Undef, r.arg.state))
             Returned(r) ==
               IF r.over THEN [m1 EXCEPT !.over = TRUE]
               ELSE IF r.exc # "none" THEN Throw(m1, r.exc)
               ELSE IF ~m.run THEN m2(r)
               ELSE newDispatch(m2(r), r.arg, n)
         IN The({Returned(r) : r \in {RunAction(m, a.fn, m.hs, a.props)}})
    [] a.shape = "pair" -> IF ~m.run THEN m ELSE newDispatch(m, ArgFn(a.fn, a.props), n)
    [] a.shape = "tuple" -> RunEffects(Update(m, a.state), a.effects, 1, a.state)
    [] OTHER -> Update(m, a.state)

\* The dispatch a definition's own dispatch initialiser returns: it notes what it is
\* given and passes it on to the dispatch it wraps.
UserDispatch(m, a, n) ==
  Native(Logged(m, Ev("user", a.shape, Undef,
                      IF a.shape \in {"fn", "pair"} THEN a.fn.bound ELSE m.self, a.state)),
         a, n)

\* The runtime's dispatch, whatever initialiser the definition supplies.
InnerDispatchNative(m, a, n) == Native(m, a, n)

\* The dispatch wrapDispatch is given and keeps in this._dispatch: the runtime's own, or
\* the one the definition's initialiser made of it (combineDispatchInitialisers).
InnerDispatch(m, a, n) == IF m.def.dispatch THEN UserDispatch(m, a, n) ELSE Native(m, a, n)

\* wrapDispatch.bindToThis.
\* A bindToThis that copies no marker to the function it returns.
bindToThisDropsMarker(m, fn) ==
  [fn EXCEPT !.bound = IF @ = Undef THEN m.self ELSE @, !.wrapped = Undef]

\* action.bind(this) makes a new function: binding a function that is already bound
\* keeps the receiver it has; the new function has a "$isWrapped" of true when the
\* function it was made from has a truthy one, and none otherwise.
bindToThis(m, fn) ==
  [fn EXCEPT !.bound = IF @ = Undef THEN m.self ELSE @,
             !.wrapped = IF Truthy(fn.wrapped) THEN True ELSE Undef]

\* The argument of newDispatch after its functions were bound.
BoundArg(m, a) ==
  CASE a.shape \in {"fn", "pair"} -> [a EXCEPT !.fn = bindToThis(m, @)]
    [] a.shape = "tuple" ->
         [a EXCEPT !.effects = [i \in 1..Len(a.effects) |-> [a.effects[i] EXCEPT !.fn = bindToThis(m, @)]]]
    [] OTHER -> a

\* tuple[0] = bindToThis(tuple[0]) writes into the tuple it was given: a tuple that
\* outlives the transition holds the bound function from then on.
Rebound(m, b) ==
  LET kept == {i \in 1..Len(b.effects) : b.effects[i].ref = "fireFoo"}
  IN IF b.shape = "tuple" /\ kept # {} THEN [m EXCEPT !.shared = b.effects[MaxOf(kept)].fn] ELSE m

\* A dispatchAction that finds a dispatch to call whether or not the reference was cleared.
dispatchActionUncleared(m, action, props, n) == InnerDispatch(m, ArgFn(action, props), n)

\* this.dispatchAction: this._dispatch is the runtime's dispatch, or undefined.
dispatchAction(m, action, props, n) ==
  IF ~m.disp THEN Throw(m, "TypeError") ELSE InnerDispatch(m, ArgFn(action, props), n)

\* A test that recognises the empty-string form of a boolean attribute only.
IsBooleanChangeEmptyOnly(attrName, oldVal, newVal) ==
  \/ newVal = Str("") /\ oldVal = Null
  \/ newVal = Null /\ oldVal = Str("")

\* The test of attributeChangedCallback for a boolean attribute being added or removed.
IsBooleanChange(attrName, oldVal, newVal) ==
  \/ newVal = Str("") /\ oldVal = Null
  \/ newVal = Null /\ oldVal = Str("")
  \/ newVal = Null /\ oldVal = Str(attrName)
  \/ newVal = Str(attrName) /\ oldVal = Null

\* The callback past its guard.
Notified(m, attrName, oldVal, newVal, n) ==
  IF n = 0 THEN [m EXCEPT !.over = TRUE]
  ELSE LET cfg == exposedAttrs[ToLowerCase(attrName)]
           action == SetterOf(cfg)
           propName == IF cfg.propName # "" THEN cfg.propName ELSE cfg.attrName
           val == IF IsBooleanChange(attrName, oldVal, newVal) THEN Bool(newVal # Null) ELSE newVal
       IN dispatchAction(Logged(m, Ev("acc", attrName, oldVal, newVal, Undef)),
                         action, Obj(<< <<propName, val>> >>), n - 1)

\* A callback without the guard: an unchanged value is dispatched like any other.  The
\* cascade this starts has no end, and is followed for three nested notifications.
attributeChangedCallbackUnguarded(m, attrName, oldVal, newVal, n) ==
  IF n + 3 <= MaxDepth THEN [m EXCEPT !.over = TRUE] ELSE Notified(m, attrName, oldVal, newVal, n)

\* A callback that skips an unchanged value only when it is re-entered from a sync.
attributeChangedCallbackGuardsReentry(m, attrName, oldVal, newVal, n) ==
  IF oldVal = newVal /\ n < MaxDepth THEN m ELSE Notified(m, attrName, oldVal, newVal, n)

\* A callback that skips an unchanged value only for an attribute that has a property.
attributeChangedCallbackGuardsReflected(m, attrName, oldVal, newVal, n) ==
  IF oldVal = newVal /\ exposedAttrs[ToLowerCase(attrName)].propName # "" THEN m
  ELSE Notified(m, attrName, oldVal, newVal, n)

\* A callback that names the payload's field after the attribute, whatever the descriptor.
attributeChangedCallbackAttrKey(m, attrName, oldVal, newVal, n) ==
  IF oldVal = newVal THEN m
  ELSE IF n = 0 THEN [m EXCEPT !.over = TRUE]
  ELSE LET cfg == exposedAttrs[ToLowerCase(attrName)]
           val == IF IsBooleanChange(attrName, oldVal, newVal) THEN Bool(newVal # Null) ELSE newVal
       IN dispatchAction(Logged(m, Ev("acc", attrName, oldVal, newVal, Undef)),
                         SetterOf(cfg), Obj(<< <<cfg.attrName, val>> >>), n - 1)

attributeChangedCallback(m, attrName, oldVal, newVal, n) ==
  IF oldVal = newVal THEN m
  ELSE IF n = 0 THEN [m EXCEPT !.over = TRUE]
  ELSE LET cfg == exposedAttrs[ToLowerCase(attrName)]
           action == SetterOf(cfg)
           propName == IF cfg.propName # "" THEN cfg.propName ELSE cfg.attrName
           val == IF IsBooleanChange(attrName, oldVal, newVal) THEN Bool(newVal # Null) ELSE newVal
       IN dispatchAction(Logged(m, Ev("acc", attrName, oldVal, newVal, Undef)),
                         action, Obj(<< <<propName, val>> >>), n - 1)

\* An exception thrown by a custom element reaction is reported, not propagated.
Reported(m) ==
  LET Report(x) ==
        IF Failed(x) THEN [Logged(x, Ev("report", x.exc, Undef, Undef, Undef)) EXCEPT !.exc = "none"] ELSE x
  IN The({Report(x) : x \in {m}})

\* element.setAttribute(name, value): observed attributes notify on every call.
ElSetAttribute(m, a, value, n) ==
  LET old == m.attrs[a]
      new == ToStr(value)
      m1 == Logged([m EXCEPT !.attrs[a] = new], Ev("setattr", a, old, new, value))
  IN Reported(attributeChangedCallback(m1, a, old, new, n))

\* element.removeAttribute(name): nothing happens when the attribute is absent.
ElRemoveAttribute(m, a, n) ==
  LET old == m.attrs[a]
      m1 == Logged([m EXCEPT !.attrs[a] = Null], Ev("removeattr", a, old, Null, Undef))
  IN IF old = Null THEN m1 ELSE Reported(attributeChangedCallback(m1, a, old, Null, n))

\* A sync that writes every value as it is, booleans included.
syncAttributeNoFlag(m, cfg, value, n) ==
  IF cfg.eventType # "" THEN m
  ELSE ElSetAttribute(Logged(m, Ev("sync", cfg.attrName, m.snap, value, Undef)), cfg.attrName, value, n)

\* A sync that removes the attribute for boolean false only (the earlier revision).
syncAttributeNoEmpty(m, cfg, value, n) ==
  IF cfg.eventType # "" THEN m
  ELSE LET m1 == Logged(m, Ev("sync", cfg.attrName, m.snap, value, Undef))
       IN IF value = False THEN ElRemoveAttribute(m1, cfg.attrName, n)
          ELSE ElSetAttribute(m1, cfg.attrName, IF value = True THEN Str("") ELSE value, n)

\* A sync that reflects a handler field as a flag: present while a handler is set.
syncAttributeFlagsHandlers(m, cfg, value, n) ==
  LET attrName == cfg.attrName
      m1 == Logged(m, Ev("sync", attrName, m.snap, value, Undef))
  IN IF cfg.eventType # ""
     THEN IF value.t = "function" THEN ElSetAttribute(m1, attrName, Str(""), n)
          ELSE ElRemoveAttribute(m1, attrName, n)
     ELSE IF value.t = "boolean"
          THEN IF value = True THEN ElSetAttribute(m1, attrName, Str(""), n)
               ELSE ElRemoveAttribute(m1, attrName, n)
          ELSE IF value = Undef \/ value = Null \/ value = Str("")
               THEN ElRemoveAttribute(m1, attrName, n)
               ELSE ElSetAttribute(m1, attrName, value, n)

syncAttribute(m, cfg, value, n) ==
  IF cfg.eventType # "" THEN m
  ELSE LET attrName == cfg.attrName
           m1 == Logged(m, Ev("sync", attrName, m.snap, value, Undef))
       IN IF value.t = "boolean"
          THEN IF value = True THEN ElSetAttribute(m1, attrName, Str(""), n)
               ELSE ElRemoveAttribute(m1, attrName, n)
          ELSE IF value = Undef \/ value = Null \/ value = Str("")
               THEN ElRemoveAttribute(m1, attrName, n)
               ELSE ElSetAttribute(m1, attrName, value, n)

\* The loop of syncAttributes over the keys the snapshot had when the loop began; the
\* value of each key is read from the snapshot of the moment.
syncFrom(m, keys, i, n) ==
  LET name == keys[i]
      cfg == exposedProps[name]
      From(x) ==
        IF i > Len(keys) \/ Failed(x) \/ x.over THEN x
        ELSE syncFrom(IF name \in DOMAIN exposedProps /\ cfg.attrName # ""
                      THEN syncAttribute(x, cfg, Get(x.snap, name), n)
                      ELSE x,
                      keys, i + 1, n)
  IN The({From(x) : x \in {m}})

\* A syncAttributes that goes through the property table instead of the snapshot's keys.
syncAttributesAllProps(m, n) ==
  syncFrom(Logged(m, Ev("syncAttributes", "", Undef, Undef, Undef)),
           [i \in 1..Len(exposedConfig) |-> exposedConfig[i].propName], 1, n)

syncAttributes(m, n) == syncFrom(Logged(m, Ev("syncAttributes", "", Undef, Undef, Undef)), Keys(m.snap), 1, n)

\* dispatch(action, props) inside newDispatch: the call of the wrapped dispatch with the
\* bound argument b.  The log notes the call and, when it returns normally, its return,
\* tagged with the position of the call in the log.
Forward(m, a, b, n) ==
  LET id == Len(m.log) + 1
      Returned(m2) ==
        IF Failed(m2) \/ m2.over THEN m2
        ELSE Logged(m2, Ev("returned", a.shape, Num(ToString(id)), a.state, Undef))
  IN The({Returned(m2) : m2 \in {InnerDispatch(Logged(m, Ev("forward", a.shape, Undef, a.state, Undef)), b, n)}})

\* An interceptor that forwards first and captures the state afterwards.
newDispatchCaptureLate(m, a, n) ==
  LET b == BoundArg(m, a)
      has == a.shape \in {"tuple", "state"} /\ a.state # Undef
      Late(m2) ==
        IF Failed(m2) \/ m2.over \/ ~has THEN m2
        ELSE syncAttributes(Logged([m2 EXCEPT !.snap = a.state], Ev("capture", "", m2.snap, a.state, Undef)), n)
  IN The({Late(m2) : m2 \in {Forward(Rebound(m, b), a, b, n)}})

\* An interceptor that captures a bare state only: the state of a [state, ...effects]
\* array goes to the runtime and not into the snapshot.
newDispatchCapturesBareOnly(m, a, n) ==
  LET b == BoundArg(m, a)
      has == a.shape \in {"tuple", "state"} /\ a.state # Undef
      m1 == IF has /\ a.shape = "state"
            THEN Logged([Rebound(m, b) EXCEPT !.snap = a.state], Ev("capture", "", m.snap, a.state, Undef))
            ELSE Rebound(m, b)
      Sync(m2) == IF Failed(m2) \/ m2.over \/ ~has THEN m2 ELSE syncAttributes(m2, n)
  IN The({Sync(m2) : m2 \in {Forward(m1, a, b, n)}})

\* An interceptor that captures and forwards but never syncs.
newDispatchNoSync(m, a, n) ==
  LET b == BoundArg(m, a)
      has == a.shape \in {"tuple", "state"} /\ a.state # Undef
      m1 == IF has THEN Logged([Rebound(m, b) EXCEPT !.snap = a.state], Ev("capture", "", m.snap, a.state, Undef))
            ELSE Rebound(m, b)
  IN Forward(m1, a, b, n)

\* An interceptor that syncs after every invocation, whatever it was given.
newDispatchSyncsAlways(m, a, n) ==
  LET b == BoundArg(m, a)
      has == a.shape \in {"tuple", "state"} /\ a.state # Undef
      m1 == IF has THEN Logged([Rebound(m, b) EXCEPT !.snap = a.state], Ev("capture", "", m.snap, a.state, Undef))
            ELSE Rebound(m, b)
      Sync(m2) == IF Failed(m2) \/ m2.over THEN m2 ELSE syncAttributes(m2, n)
  IN The({Sync(m2) : m2 \in {Forward(m1, a, b, n)}})

\* wrapDispatch.newDispatch: bind, capture the new state, forward, then sync.
newDispatch(m, a, n) ==
  LET b == BoundArg(m, a)
      has == a.shape \in {"tuple", "state"} /\ a.state # Undef
      m1 == IF has THEN Logged([Rebound(m, b) EXCEPT !.snap = a.state], Ev("capture", "", m.snap, a.state, Undef))
            ELSE Rebound(m, b)
      Sync(m2) == IF Failed(m2) \/ m2.over \/ ~has THEN m2 ELSE syncAttributes(m2, n)
  IN The({Sync(m2) : m2 \in {Forward(m1, a, b, n)}})

\* A property write that hands the bare value to the setter as its payload.
setPropertyRaw(m, propName, value, n) ==
  dispatchAction(m, SetterOf(exposedProps[propName]), value, n)

\* setProperty, behind the accessor addProperties installs for propName.
setProperty(m, propName, value, n) ==
  dispatchAction(m, SetterOf(exposedProps[propName]), Obj(<< <<propName, value>> >>), n)

\* A method that hands the caller's first argument to the action as its payload.
callMethodPassesArgs(m, name, arg, n) == dispatchAction(m, exposedMethods[name], arg, n)

\* The callable addMethods installs for an exposed method: it takes no parameters, and
\* dispatches the action with no payload whatever the caller passes (arg).
callMethod(m, name, arg, n) == dispatchAction(m, exposedMethods[name], Undef, n)

\* node.appendChild(child) for a child that is this._fragment: the nodes of a fragment
\* move to the instance and leave the fragment empty; undefined is not a node.
AppendChild(m, child) ==
  CASE child = "undefined" -> Throw(m, "TypeError")
    [] child = "full" -> [m EXCEPT !.kids = @ + 1, !.frag = "empty"]
    [] OTHER -> m

\* A connectedCallback that appends the fragment whatever the options are.
connectedCallbackAlways(m) == AppendChild(m, m.frag)

connectedCallback(m) ==
  IF ~m.def.useShadowDOM /\ m.def.parent = "HTMLElement" THEN AppendChild(m, m.frag) ELSE m

\* disconnectedCallback: this._dispatch() halts the runtime, then both references are
\* cleared; calling an undefined this._dispatch is a TypeError.
disconnectedCallback(m) ==
  IF ~m.disp THEN Throw(m, "TypeError")
  ELSE LET Clear(m1) == IF Failed(m1) THEN m1 ELSE [m1 EXCEPT !.disp = FALSE, !.frag = "undefined"]
       IN The({Clear(m1) : m1 \in {InnerDispatch(m, ArgState(Undef), MaxDepth)}})

\* The constructor: app() hands the runtime's dispatch to wrapDispatch, which keeps it in
\* this._dispatch, and then dispatches init through the interceptor.
\* The second instance while it has not been constructed.
NoPeer ==
  [hs |-> Undef, snap |-> Undef, attrs |-> [a \in AttrNames |-> Null], lst |-> <<>>,
   disp |-> FALSE, run |-> TRUE, def |-> DefaultDef, frag |-> "undefined", kids |-> 0,
   self |-> Other]

\* dispatchEvent('Foo')[0] as the module made it: the effect runner, not bound.
FireFoo == Fun("dispatchEventEffect", NoDesc)

Blank ==
  [hs |-> Undef, snap |-> Undef, attrs |-> [a \in AttrNames |-> Null], lst |-> <<>>,
   disp |-> FALSE, log |-> <<>>, exc |-> "none", over |-> FALSE,
   run |-> TRUE, def |-> DefaultDef, frag |-> "undefined", kids |-> 0,
   self |-> Instance, peer |-> NoPeer, shared |-> FireFoo]

\* An instance of the class generated with the options d: the root is a shadow root or a
\* fragment kept in this._fragment, and the span the view replaces is appended to it.
ConstructOn(m, d) ==
  newDispatch([m EXCEPT !.disp = TRUE, !.def = d,
                        !.frag = IF d.useShadowDOM THEN "undefined" ELSE "full"],
              ArgState(InitState), MaxDepth)

Construct(d) == ConstructOn(Blank, d)

Constructed == Construct(DefaultDef)

(***************************************************************************)
(* chainActions.  A function is named by f and carries the number of      *)
(* WrappedActions that chainActions has put around it and the receiver it  *)
(* was bound to.  States are records of two counters: n counts the         *)
(* applications of originalAction (or of the action it hands on to), f     *)
(* those of followUpAction.                                                *)
(***************************************************************************)
ChainFn(f) == [f |-> f, chained |-> 0, isBound |-> FALSE, this |-> Undef]
NoChainFn == ChainFn("")

\* What an action returns: a state, [state, ...effects] or [action, props].  ref names
\* the array object when it is one the action keeps and returns again ("": a new one).
RvState(state) == [k |-> "state", s |-> state, fxs |-> <<>>, fn |-> NoChainFn, props |-> Undef, ref |-> ""]
RvTuple(state, fxs, ref) == [k |-> "tuple", s |-> state, fxs |-> fxs, fn |-> NoChainFn, props |-> Undef, ref |-> ref]
RvPair(fn, props, ref) == [k |-> "pair", s |-> [n |-> 0, f |-> 0], fxs |-> <<>>, fn |-> fn, props |-> props, ref |-> ref]

\* An effect the original action returns with its state, and the effect WrappedAction
\* inserts: an arrow function, which has the receiver of the WrappedAction that made it.
OtherEffect == [f |-> "other", this |-> Undef]
FollowUpEffect(this) == [f |-> "arrow", this |-> this]

\* The state held by the array a definition keeps: const kept = [{ n: 1, f: 0 }, effect].
KeptState == [n |-> 1, f |-> 0]
\* The payload of the action originalAction hands on to.
InnerProps == Obj(<< <<"inner", True>> >>)

\* No use of chainActions.
NoChain ==
  [ret |-> "none", same |-> FALSE, bindTo |-> Undef, recv |-> Undef, followUpProps |-> Undef,
   fxs |-> <<>>, chained |-> 0, st |-> [n |-> 0, f |-> 0], calls |-> 0]

\* The uses that are followed: originalAction returns a state, a state with an effect or
\* an action with its payload (ret), in a new array each time or the same one (same);
\* bindTo is given or not; the runtime calls the chained action with no receiver or, under
\* an element's interceptor, bound to the element (recv); followUpProps is given or {}.
ChainUses ==
  {[ret |-> r, same |-> k, bindTo |-> b, recv |-> t, followUpProps |-> p,
    fxs |-> <<OtherEffect>>, chained |-> 0, st |-> [n |-> 0, f |-> 0], calls |-> 0] :
     r \in {"state", "tuple", "pair"}, k \in BOOLEAN, b \in {Undef, Instance, Other},
     t \in {Undef, Instance}, p \in {Obj(<<>>), Obj(<< <<"by", Num("2")>> >>)}}

RECURSIVE Apply(_, _, _, _, _)
RECURSIVE WrappedAction(_, _, _, _, _)
RECURSIVE hyperappDispatch(_, _, _)
RECURSIVE hyperappEffects(_, _, _)

\* originalAction, and the action it hands on to: each returns the state with n raised,
\* or the array the definition keeps.
originalAction(x, this, state, props) ==
  LET x1 == Logged(x, Ev("original", x.ch.ret, state, this, props))
      s1 == [state EXCEPT !.n = @ + 1]
  IN CASE x.ch.ret = "state" -> [x |-> Logged(x1, Ev("result", "originalAction", s1, Undef, Undef)), rv |-> RvState(s1)]
       [] x.ch.ret = "tuple" ->
            IF x.ch.same
            THEN [x |-> Logged(x1, Ev("result", "originalAction", KeptState, Undef, Undef)),
                  rv |-> RvTuple(KeptState, x.ch.fxs, "kept")]
            ELSE [x |-> Logged(x1, Ev("result", "originalAction", s1, Undef, Undef)),
                  rv |-> RvTuple(s1, <<OtherEffect>>, "")]
       [] OTHER ->
            IF x.ch.same
            THEN [x |-> x1, rv |-> RvPair([ChainFn("innerAction") EXCEPT !.chained = x.ch.chained], InnerProps, "kept")]
            ELSE [x |-> x1, rv |-> RvPair(ChainFn("innerAction"), InnerProps, "")]

innerAction(x, this, state, props) ==
  LET s1 == [state EXCEPT !.n = @ + 1]
  IN [x |-> Logged(x, Ev("result", "innerAction", s1, this, props)), rv |-> RvState(s1)]

followUpAction(x, this, state, props) ==
  [x |-> Logged(x, Ev("followUp", "", state, this, props)), rv |-> RvState([state EXCEPT !.f = @ + 1])]

\* fn.call(this, state, props), for a function that is not bound.
Apply(x, fn, this, state, props) ==
  CASE fn.chained > 0 -> WrappedAction(x, fn, this, state, props)
    [] fn.f = "originalAction" -> originalAction(x, this, state, props)
    [] fn.f = "innerAction" -> innerAction(x, this, state, props)
    [] OTHER -> followUpAction(x, this, state, props)

\* chainActions(originalAction, followUpAction, followUpProps, bindTo).WrappedAction, for
\* the function fn it is wrapped around (fn with one WrappedAction less).
WrappedAction(x, fn, this, state, props) ==
  LET Rest(r) ==
        CASE r.rv.k = "state" ->
               Apply(r.x, ChainFn("followUpAction"), r.x.ch.bindTo, r.rv.s, r.x.ch.followUpProps)
          [] r.rv.k = "tuple" ->
               LET fxs == <<FollowUpEffect(this)>> \o r.rv.fxs
               IN [x |-> IF r.rv.ref = "kept" THEN [r.x EXCEPT !.ch.fxs = fxs] ELSE r.x,
                   rv |-> [r.rv EXCEPT !.fxs = fxs]]
          [] OTHER ->
               LET again == [r.rv.fn EXCEPT !.chained = @ + 1]
               IN [x |-> IF r.rv.ref = "kept" THEN [r.x EXCEPT !.ch.chained = again.chained] ELSE r.x,
                   rv |-> [r.rv EXCEPT !.fn = again]]
  IN The({Rest(r) : r \in {Apply(x, [fn EXCEPT !.chained = @ - 1], x.ch.bindTo, state, props)}})

\* The runtime's dispatch of an action: the action is applied to the runtime's state, a
\* state it returns is stored, effects are run in order, an action is dispatched in turn.
hyperappDispatch(x, fn, props) ==
  LET Go(r) ==
        CASE r.rv.k = "state" -> [r.x EXCEPT !.ch.st = r.rv.s]
          [] r.rv.k = "tuple" -> hyperappEffects([r.x EXCEPT !.ch.st = r.rv.s], r.rv.fxs, 1)
          [] OTHER -> hyperappDispatch(r.x, r.rv.fn, r.rv.props)
  IN The({Go(r) : r \in {Apply(x, fn, IF fn.isBound THEN fn.this ELSE x.ch.recv, x.ch.st, props)}})

\* The inserted effect is (dispatch, props) => { dispatch(followUpAction.bind(this), followUpProps) }.
hyperappEffects(x, fxs, i) ==
  LET From(y) ==
        IF i > Len(fxs) THEN y
        ELSE hyperappEffects(
               IF fxs[i].f = "arrow"
               THEN hyperappDispatch(y, [ChainFn("followUpAction") EXCEPT !.isBound = TRUE, !.this = fxs[i].this],
                                     y.ch.followUpProps)
               ELSE Logged(y, Ev("effect", "other", y.ch.st, Undef, Undef)),
               fxs, i + 1)
  IN The({From(y) : y \in {x}})

\* chainActions(originalAction, followUpAction, followUpProps, bindTo): the chained action.
chainActions == [ChainFn("originalAction") EXCEPT !.chained = 1]

(***************************************************************************)
(* The host: what it writes, and the state machine.                        *)
(***************************************************************************)
\* The fields the host of Spec writes and reads: the numeric field, the boolean field and
\* the handler field.
HostProps == {"countX", "hidden", "onfoo"}
HostAttrs == {"count-x", "hidden", "onfoo"}

HostMethods == {"fire"}

\* Values the host assigns to each exposed property.
PropValues(p) ==
  CASE p = "countX" -> {Num("5"), Str("7"), Str(""), Null, Undef}
    [] p = "hidden" -> {True, False}
    [] OTHER -> {Fn("A"), Fn("B"), Null}

\* What the host passes to an exposed method: nothing, or a number.
MethodArgs == {Undef, Num("5")}

\* Strings the host sets each observed attribute to.
AttrValues(a) ==
  CASE a = "count-x" -> {Str("7"), Str("")}
    [] a = "hidden" -> {Str(""), Str("hidden"), Str("yes")}
    [] OTHER -> {Str(""), Str("x")}

Op(op, n, v) == [op |-> op, n |-> n, v |-> v]

\* The machine a host operation starts on.
M0 ==
  [hs |-> hs, snap |-> snap, attrs |-> attrs, lst |-> lst, disp |-> disp,
   log |-> <<>>, exc |-> "none", over |-> FALSE,
   run |-> run, def |-> def, frag |-> frag, kids |-> kids,
   self |-> Instance, peer |-> peer, shared |-> shared]

\* The documented scenarios, followed from construction: countX = 5 and then count-x="7";
\* hidden = true and then hidden = false.
NextScn(o) ==
  CASE scn = "init" /\ o = Op("setProperty", "countX", Num("5")) -> "five"
    [] scn = "five" /\ o = Op("setAttribute", "count-x", Str("7")) -> "seven"
    [] scn = "init" /\ o = Op("setProperty", "hidden", True) -> "shown"
    [] scn = "shown" /\ o = Op("setProperty", "hidden", False) -> "hiddenAgain"
    [] OTHER -> "off"

\* Whether the operation writes the handler field other than by assigning a callable or null.
Soils(o) ==
  \/ o.op \in {"setAttribute", "removeAttribute"} /\ exposedAttrs[o.n].eventType # ""
  \/ o.op = "setProperty" /\ exposedProps[o.n].eventType # "" /\ o.v.t \notin {"function", "null"}

Commit(m, o) ==
  /\ hs' = m.hs
  /\ snap' = m.snap
  /\ attrs' = m.attrs
  /\ lst' = m.lst
  /\ disp' = m.disp
  /\ log' = m.log
  /\ last' = o
  /\ outcome' = m.exc
  /\ over' = (over \/ m.over)
  /\ scn' = NextScn(o)
  /\ clean' = (clean /\ ~Soils(o))
  /\ run' = m.run
  /\ def' = m.def
  /\ frag' = m.frag
  /\ kids' = m.kids
  /\ conn' = IF o.op = "connect" THEN TRUE ELSE IF o.op = "disconnect" THEN FALSE ELSE conn
  /\ peer' = m.peer
  /\ shared' = m.shared
  /\ UNCHANGED <<config, gen, probe, chain>>

\* The state in which the constructor leaves the machine c.
InitWith(c) ==
  /\ hs = c.hs
  /\ snap = c.snap
  /\ attrs = c.attrs
  /\ lst = c.lst
  /\ disp = c.disp
  /\ log = c.log
  /\ last = Op("construct", "", Undef)
  /\ outcome = c.exc
  /\ over = c.over
  /\ scn = "init"
  /\ clean = TRUE
  /\ run = c.run
  /\ def = c.def
  /\ frag = c.frag
  /\ kids = c.kids
  /\ conn = FALSE
  /\ peer = c.peer
  /\ shared = c.shared
  /\ chain = NoChain

\* The class the instances are made from.
Generated ==
  /\ config = exposedConfig
  /\ gen = generateClass(exposedConfig)
  /\ probe = NoProbe

Init == Generated /\ InitWith(Constructed)

\* instance[p] = v
HostSetProperty ==
  \E p \in HostProps : \E v \in PropValues(p) :
    \E m \in {setProperty(M0, p, v, MaxDepth)} : Commit(m, Op("setProperty", p, v))

\* instance.setAttribute(a, v)
HostSetAttribute ==
  \E a \in HostAttrs : \E v \in AttrValues(a) :
    \E m \in {ElSetAttribute(M0, a, v, MaxDepth)} : Commit(m, Op("setAttribute", a, v))

\* instance.removeAttribute(a)
HostRemoveAttribute ==
  \E a \in HostAttrs :
    \E m \in {ElRemoveAttribute(M0, a, MaxDepth)} : Commit(m, Op("removeAttribute", a, Undef))

\* instance[name](arg)
HostCallMethod ==
  \E name \in HostMethods : \E arg \in MethodArgs :
    \E m \in {callMethod(M0, name, arg, MaxDepth)} : Commit(m, Op("method", name, arg))

\* instance[p], read by the host
HostGetProperty ==
  \E p \in HostProps :
    Commit(Logged(M0, Ev("get", p, Undef, GetProperty(M0, p), Undef)), Op("getProperty", p, Undef))

Next ==
  HostSetProperty \/ HostSetAttribute \/ HostRemoveAttribute \/ HostCallMethod \/ HostGetProperty

\* The use a host makes of an instance of the default definition while it is alive.
Spec == Init /\ [][Next]_vars

(***************************************************************************)
(* The whole life of an instance, for every definition: connection,        *)
(* disconnection, and calls of the replaced dispatch by whoever kept it    *)
(* (an effect, a subscription), with a host that writes fewer values.      *)
(***************************************************************************)
\* The host connects the instance: a reaction, so an exception is reported.
ConnectedCallback ==
  /\ ~conn
  /\ \E m \in {Reported(connectedCallback(M0))} : Commit(m, Op("connect", "", Undef))

\* The host disconnects the instance.
DisconnectedCallback ==
  /\ conn
  /\ \E m \in {Reported(disconnectedCallback(M0))} : Commit(m, Op("disconnect", "", Undef))

\* What an effect or a subscription passes to the dispatch it was handed: an action, an
\* action with its payload, a state, a state with no effects, or nothing.
RetainedArgs ==
  { ArgFn(Fun("PatchState", NoDesc), Obj(<< <<"hidden", True>> >>)),
    ArgPair(Fun("PatchState", NoDesc), Obj(<< <<"hidden", False>> >>)),
    ArgState(Obj(<< <<"countX", Num("5")>>, <<"hidden", True>> >>)),
    ArgTuple(Obj(<< <<"countX", Num("0")>>, <<"hidden", False>> >>), <<>>),
    ArgState(Undef) }

RetainedDispatch ==
  \E a \in RetainedArgs :
    \E m \in {newDispatch(M0, a, MaxDepth)} :
      Commit(m, Op("dispatch", a.shape, IF a.shape \in {"fn", "pair"} THEN a.props ELSE a.state))

LifeWrites == {<<"hidden", True>>, <<"hidden", False>>, <<"onfoo", Fn("A")>>, <<"onfoo", Null>>}

LifeSetProperty ==
  \E w \in LifeWrites :
    \E m \in {setProperty(M0, w[1], w[2], MaxDepth)} : Commit(m, Op("setProperty", w[1], w[2]))

LifeSetAttribute ==
  \E m \in {ElSetAttribute(M0, "hidden", Str(""), MaxDepth)} : Commit(m, Op("setAttribute", "hidden", Str("")))

LifeRemoveAttribute ==
  \E m \in {ElRemoveAttribute(M0, "hidden", MaxDepth)} : Commit(m, Op("removeAttribute", "hidden", Undef))

LifeInit == Generated /\ \E d \in Definitions : InitWith(Construct(d))

LifeNext ==
  \/ ConnectedCallback
  \/ DisconnectedCallback
  \/ RetainedDispatch
  \/ LifeSetProperty
  \/ LifeSetAttribute
  \/ LifeRemoveAttribute
  \/ HostCallMethod

LifeSpec == LifeInit /\ [][LifeNext]_vars

(***************************************************************************)
(* The life of an instance whose host also calls syncAttributes itself.    *)
(***************************************************************************)
\* instance.syncAttributes(), called by the host; the operation notes which operation
\* came before it.
HostSyncAttributes ==
  \E m \in {syncAttributes(M0, MaxDepth)} : Commit(m, Op("sync", last.op, Undef))

SyncNext == LifeNext \/ HostSyncAttributes

SyncSpec == LifeInit /\ [][SyncNext]_vars

(***************************************************************************)
(* Host use of the fields Spec leaves alone: the field with a getter of    *)
(* its own, the attribute without a property, and a method whose           *)
(* transition drops a key of the state.                                    *)
(***************************************************************************)
FieldWrites ==
  {<<"theThing", Num("2")>>, <<"theThing", Str("")>>, <<"hidden", True>>, <<"onfoo", Str("(")>>}
FieldAttrWrites ==
  {<<"the-thing", Str("2")>>, <<"label", Str("x")>>, <<"hidden", Str("")>>}
FieldAttrs == {w[1] : w \in FieldAttrWrites}
FieldMethods == {"forget", "boom"}

FieldSetProperty ==
  \E w \in FieldWrites :
    \E m \in {setProperty(M0, w[1], w[2], MaxDepth)} : Commit(m, Op("setProperty", w[1], w[2]))

FieldSetAttribute ==
  \E w \in FieldAttrWrites :
    \E m \in {ElSetAttribute(M0, w[1], w[2], MaxDepth)} : Commit(m, Op("setAttribute", w[1], w[2]))

FieldRemoveAttribute ==
  \E a \in FieldAttrs :
    \E m \in {ElRemoveAttribute(M0, a, MaxDepth)} : Commit(m, Op("removeAttribute", a, Undef))

FieldCallMethod ==
  \E name \in FieldMethods :
    \E m \in {callMethod(M0, name, Undef, MaxDepth)} : Commit(m, Op("method", name, Undef))

FieldGetProperty ==
  \E p \in {"theThing", "hidden"} :
    Commit(Logged(M0, Ev("get", p, Undef, GetProperty(M0, p), Undef)), Op("getProperty", p, Undef))

FieldNext ==
  FieldSetProperty \/ FieldSetAttribute \/ FieldRemoveAttribute \/ FieldCallMethod \/ FieldGetProperty

FieldSpec == Init /\ [][FieldNext]_vars

(***************************************************************************)
(* Two live instances of the class, made from one definition whose method  *)
(* `ping` returns an effect tuple that the module creates once.  The first *)
(* instance is held in hs, snap, attrs, lst, ...; the second in peer.      *)
(***************************************************************************)
\* Values the module may have put in the "$isWrapped" property of the effect runner.
Markers == {Undef, True, False, Num("1"), Num("0")}

\* Both instances constructed, the second after the first.
Both == [Swap(ConstructOn(Swap(Construct(DefaultDef)), DefaultDef)) EXCEPT !.log = <<>>]

DuoInit ==
  /\ Generated
  /\ \E w \in Markers : InitWith([Both EXCEPT !.shared.wrapped = w])

\* The machine a host operation on the instance `who` starts on (the log opens with the
\* instance it is on), and the machine it ends on, seen from the first instance again.
Hosted(who) ==
  IF who = Instance THEN Logged(M0, Ev("host", "", Undef, Instance, Undef))
  ELSE Logged(Swap(M0), Ev("host", "", Undef, Other, Undef))
Back(who, m) == IF who = Instance THEN m ELSE Swap(m)

DuoWrites == {<<"hidden", True>>, <<"hidden", False>>, <<"onfoo", Fn("A")>>, <<"onfoo", Null>>}

DuoSetProperty ==
  \E who \in {Instance, Other} : \E w \in DuoWrites :
    \E m \in {Back(who, setProperty(Hosted(who), w[1], w[2], MaxDepth))} :
      Commit(m, Op("setProperty", w[1], w[2]))

DuoCallMethod ==
  \E who \in {Instance, Other} : \E name \in {"fire", "ping"} :
    \E m \in {Back(who, callMethod(Hosted(who), name, Undef, MaxDepth))} :
      Commit(m, Op("method", name, Undef))

DuoNext == DuoSetProperty \/ DuoCallMethod

DuoSpec == DuoInit /\ [][DuoNext]_vars

(***************************************************************************)
(* Class generation over descriptor lists: generateClass is applied to a   *)
(* list, and attribute names are looked up in the class it returns.        *)
(***************************************************************************)
\* Descriptors with and without each name, the attribute name in either letter case.
DescPool == {Desc(a, p, "") : a \in {"", "count-x", "Count-X", "Hidden"}, p \in {"", "countX"}}
Configs == UNION {[1..k -> DescPool] : k \in 0..MaxDescs}
\* Attribute names a callback is given.
GivenNames == {"count-x", "Count-X", "hidden", "Hidden"}

\* No instance has been constructed.
NoInstance ==
  /\ hs = Blank.hs
  /\ snap = Blank.snap
  /\ attrs = Blank.attrs
  /\ lst = Blank.lst
  /\ disp = Blank.disp
  /\ log = Blank.log
  /\ last = Op("none", "", Undef)
  /\ outcome = Blank.exc
  /\ over = Blank.over
  /\ scn = "off"
  /\ clean = TRUE
  /\ run = Blank.run
  /\ def = Blank.def
  /\ frag = Blank.frag
  /\ kids = Blank.kids
  /\ conn = FALSE
  /\ peer = Blank.peer
  /\ shared = Blank.shared

InstanceVars ==
  <<hs, snap, attrs, lst, disp, log, last, outcome, over, scn, clean, run, def, frag, kids, conn,
    peer, shared>>

GenInit ==
  /\ NoInstance
  /\ chain = NoChain
  /\ config \in Configs
  /\ gen = NotGenerated
  /\ probe = NoProbe

\* generateClass({ exposedConfig: config, ... })
GenerateClass ==
  /\ gen.class = "none"
  /\ gen' = generateClass(config)
  /\ UNCHANGED <<InstanceVars, config, probe, chain>>

\* The lookup of an attribute name in the generated class.
AttributeLookup ==
  /\ gen.class = "generated"
  /\ \E name \in GivenNames : probe' = [name |-> name, cfg |-> LookupAttr(gen, name)]
  /\ UNCHANGED <<InstanceVars, config, gen, chain>>

GenNext == GenerateClass \/ AttributeLookup

GenSpec == GenInit /\ [][GenNext]_vars

(***************************************************************************)
(* A runtime that is given the action chainActions returns, several times. *)
(***************************************************************************)
ChainInit ==
  /\ NoInstance
  /\ config = <<>>
  /\ gen = NotGenerated
  /\ probe = NoProbe
  /\ chain \in ChainUses

\* dispatch(chained, props)
DispatchChained ==
  /\ chain.calls < MaxChain
  /\ \E x \in {hyperappDispatch([ch |-> chain, log |-> <<>>], chainActions, Obj(<< <<"call", Num(ToString(chain.calls + 1))>> >>))} :
       /\ chain' = [x.ch EXCEPT !.calls = @ + 1]
       /\ log' = x.log
       /\ last' = Op("chained", chain.ret, Undef)
  /\ UNCHANGED <<hs, snap, attrs, lst, disp, outcome, over, scn, clean, run, def, frag, kids, conn,
                 config, gen, probe, peer, shared>>

ChainNext == DispatchChained

ChainSpec == ChainInit /\ [][ChainNext]_vars

NoOverflow == ~over

(***************************************************************************)
(* Properties.                                                             *)
(***************************************************************************)
Cur == M0

\* Descriptors that are reflected: attrName and propName, no eventType.
Reflected ==
  {i \in 1..Len(exposedConfig) :
     exposedConfig[i].attrName # "" /\ exposedConfig[i].propName # "" /\ exposedConfig[i].eventType = ""}

AttrOf(i) == attrs[ToLowerCase(exposedConfig[i].attrName)]
FieldOf(i) == Get(snap, exposedConfig[i].propName)

\* The outward encoding of a value: the attribute it is reflected as (Null: absent).
Encoding(v) ==
  CASE v = True -> Str("")
    [] v \in {False, Undef, Null, Str("")} -> Null
    [] OTHER -> Str(v.s)

Entries(e) == {i \in 1..Len(log) : log[i].e = e}

\* C1: a reflected field whose snapshot value is boolean true has its attribute present
\* with empty content, and one whose value is boolean false has it absent; every sync of
\* a boolean value sets the attribute to "" (true) or removes it (false).
C1_BooleanOutward ==
  /\ \A i \in Reflected :
       /\ FieldOf(i) = True => AttrOf(i) = Str("")
       /\ FieldOf(i) = False => AttrOf(i) = Null
  /\ \A i \in Entries("sync") :
       log[i].v.t = "boolean" =>
         /\ i < Len(log)
         /\ log[i + 1].n = log[i].n
         /\ log[i].v = True => log[i + 1].e = "setattr" /\ log[i + 1].v = Str("")
         /\ log[i].v = False => log[i + 1].e = "removeattr" /\ log[i + 1].v = Null

C1_Witness ==
  /\ last = Op("setProperty", "hidden", True)
  /\ Get(snap, "hidden") = True
  /\ attrs["hidden"] = Str("")
  /\ \E i \in Entries("sync") : log[i].n = "hidden" /\ log[i].v = True

\* C2: a reflected field whose snapshot value is undefined, null or the empty string has
\* its attribute absent, and one with any other non-boolean value has the attribute equal
\* to the value's string form; every sync of a non-boolean value does exactly that.
C2_NonBooleanOutward ==
  /\ \A i \in Reflected :
       Has(snap, exposedConfig[i].propName) /\ FieldOf(i).t # "boolean" =>
         AttrOf(i) = IF FieldOf(i) \in {Undef, Null, Str("")} THEN Null ELSE Str(FieldOf(i).s)
  /\ \A i \in Entries("sync") :
       log[i].v.t # "boolean" =>
         /\ i < Len(log)
         /\ log[i + 1].n = log[i].n
         /\ IF log[i].v \in {Undef, Null, Str("")}
            THEN log[i + 1].e = "removeattr" /\ log[i + 1].v = Null
            ELSE log[i + 1].e = "setattr" /\ log[i + 1].v = Str(log[i].v.s)

C2_Witness ==
  /\ last = Op("setProperty", "countX", Num("5"))
  /\ attrs["count-x"] = Str("5")
  /\ \E i \in Entries("sync") : log[i].n = "count-x" /\ log[i].v = Num("5")
  /\ \E i \in Entries("sync") : log[i].n = "hidden" /\ log[i].v = Null

C4_NumericRoundTrip ==
  /\ scn = "five" => attrs["count-x"] = Str("5")
  /\ scn = "seven" => GetProperty(Cur, "countX") = Num("7")

\* C4 (amended): in the scenario from construction, after countX = 5 the attribute
\* count-x is "5", and after the attribute is then set to "7" the property reads the
\* string "7", the attribute value as the host wrote it.
C4_StringRoundTrip ==
  /\ scn = "five" => attrs["count-x"] = Str("5")
  /\ scn = "seven" => GetProperty(Cur, "countX") = Str("7") /\ attrs["count-x"] = Str("7")

C4_Witness == scn = "seven" /\ last = Op("setAttribute", "count-x", Str("7")) /\ outcome = "none"

C6_BooleanSequence ==
  /\ scn = "init" => attrs["hidden"] = Null
  /\ scn = "shown" => attrs["hidden"] = Str("") /\ GetProperty(Cur, "hidden") = True
  /\ scn = "hiddenAgain" => attrs["hidden"] = Null /\ GetProperty(Cur, "hidden") = False
  /\ scn \in {"init", "shown", "hiddenAgain"} =>
       /\ attrs["hidden"] # Str("false")
       /\ \A i \in Entries("setattr") : log[i].n = "hidden" => log[i].v # Str("false")

C6_Witness ==
  /\ scn = "hiddenAgain"
  /\ \E i \in Entries("removeattr") : log[i].n = "hidden" /\ log[i].u = Str("")

\* The callable the handler field holds, registered as the only listener; no listener
\* when the field holds no callable.
ListenersOf(h) == IF h.t = "function" THEN << <<"Foo", h>> >> ELSE <<>>

\* C7: after any sequence of writes to the handler field by property or attribute, the
\* listeners registered through the field are exactly the handler of the most recent
\* write (the value the field holds), and none when it holds no callable.
C7_SingleListener == lst = ListenersOf(Get(snap, "onfoo"))

\* C8: while the handler field has only been assigned callables and null through the
\* property, a write stores the assigned value, and each Foo event fired by the dispatch
\* effect invokes the callable the field holds exactly once, on the instance, and
\* invokes nothing when the field was reassigned to null.
C8_HandlerInvokedOnce ==
  clean =>
    /\ last.op = "setProperty" /\ last.n = "onfoo" => Get(snap, "onfoo") = last.v
    /\ \A i \in Entries("event") :
         LET h == Get(snap, "onfoo")
         IN /\ h.t = "function" =>
                 /\ Cardinality(Entries("invoke")) = 1
                 /\ \E j \in Entries("invoke") : j > i /\ log[j] = Ev("invoke", "Foo", Undef, h, Instance)
            /\ h.t # "function" => Entries("invoke") = {}

C8_Witness ==
  /\ clean
  /\ last = Op("method", "fire", Undef)
  /\ Get(snap, "onfoo") = Fn("A")
  /\ Cardinality(Entries("invoke")) = 1

\* C9: every invocation of the interceptor that carries a state replaces the snapshot by
\* that state immediately before forwarding, and a host listener that reads countX while
\* an effect of the transition fires an event reads the value of the transition's state.
C9_CaptureBeforeForward ==
  /\ \A i \in Entries("forward") :
       log[i].n \in {"tuple", "state"} /\ log[i].v # Undef =>
         i > 1 /\ log[i - 1].e = "capture" /\ log[i - 1].v = log[i].v
  /\ \A i \in Entries("read") : log[i].v = log[i].w

C9_Witness ==
  /\ last = Op("method", "fire", Undef)
  /\ \E i \in Entries("capture") : \E j \in Entries("read") :
       /\ i < j
       /\ Get(log[i].u, "countX") # Get(log[i].v, "countX")
       /\ log[j].v = Get(log[i].v, "countX")

\* C10: every transition function and every effect handler run by a dispatch on the
\* instance runs with the instance as its receiver.
C10_ReceiverBound ==
  \A i \in Entries("call") \cup Entries("effect") : log[i].v = Instance

\* An invocation of the interceptor, by the position of its forward entry in the log:
\* whether it carries a state, and the entries of its return.
Carries(i) == log[i].n \in {"tuple", "state"} /\ log[i].v # Undef
ReturnsOf(i) == {j \in Entries("returned") : log[j].u = Num(ToString(i))}

\* C11: an invocation of the interceptor that carries a state (a bare state or a state
\* with effects, not undefined) calls syncAttributes exactly once, right after the
\* dispatch it forwards to has returned; an invocation given a function, an action with
\* its payload or an undefined state captures no snapshot and calls no syncAttributes.
C11_SyncOncePerState ==
  /\ \A i \in Entries("forward") :
       /\ Cardinality(ReturnsOf(i)) <= 1
       /\ \A j \in ReturnsOf(i) :
            /\ j > i
            /\ Carries(i) => j < Len(log) /\ log[j + 1].e = "syncAttributes"
            /\ ~Carries(i) => j = Len(log) \/ log[j + 1].e # "syncAttributes"
       /\ Carries(i) => i > 1 /\ log[i - 1].e = "capture"
       /\ ~Carries(i) => i = 1 \/ log[i - 1].e # "capture"
  /\ \A k \in Entries("syncAttributes") :
       /\ k > 1
       /\ log[k - 1].e = "returned"
       /\ \E i \in Entries("forward") : Carries(i) /\ k - 1 \in ReturnsOf(i)

C11_Witness ==
  /\ last.op = "dispatch"
  /\ last.n = "pair"
  /\ outcome = "none"
  /\ \E i \in Entries("forward") : log[i].n = "fn" /\ ReturnsOf(i) # {}
  /\ \E i \in Entries("forward") : Carries(i) /\ ReturnsOf(i) # {}
  /\ \E i \in Entries("removeattr") : log[i].u # Null

\* C12: once disconnectedCallback has run, the dispatch reference and the fragment
\* reference stay cleared, the snapshot never changes again, and the attributes change
\* only by the host's own attribute writes.
C12_DisconnectionTerminal ==
  [][~disp =>
       /\ ~disp'
       /\ frag' = "undefined"
       /\ snap' = snap
       /\ last'.op \notin {"setAttribute", "removeAttribute"} => attrs' = attrs]_vars

\* C13: on an instance whose disconnectedCallback has run, a property write and a method
\* call throw, an attribute change with old # new has its callback throw (the host
\* reports it), and none of them calls a transition or changes the snapshot.
C13_StaleInstanceError ==
  [][~disp =>
       /\ last'.op \in {"setProperty", "method"} => outcome' = "TypeError"
       /\ last'.op \in {"setAttribute", "removeAttribute"} /\ attrs' # attrs =>
            \E i \in 1..Len(log') : log'[i].e = "report" /\ log'[i].n = "TypeError"
       /\ last'.op \in {"setProperty", "method", "setAttribute", "removeAttribute"} =>
            /\ snap' = snap
            /\ hs' = hs
            /\ \A i \in 1..Len(log') : log'[i].e # "call"]_vars

C13_Witness ==
  /\ ~disp
  /\ last = Op("setProperty", "hidden", True)
  /\ outcome = "TypeError"
  /\ Get(snap, "hidden") # True

\* C19: when the definition supplies a dispatch initialiser, every invocation of the
\* interceptor hands its bound argument to the user's dispatch, which hands it to the
\* runtime; what a running runtime dispatches again enters the interceptor; and a state
\* that is carried is still captured before and synced after.
C19_CombinedInitialisers ==
  def.dispatch =>
    /\ \A i \in Entries("forward") :
         /\ i < Len(log)
         /\ log[i + 1].e = "user"
         /\ log[i + 1].n = log[i].n
         /\ log[i + 1].v = Instance
         /\ log[i + 1].w = log[i].v
         /\ Carries(i) =>
              /\ log[i - 1].e = "capture"
              /\ \A j \in ReturnsOf(i) : log[j + 1].e = "syncAttributes"
    /\ \A k \in Entries("call") : k > 1 /\ log[k - 1].e = "user"
    /\ run => \A k \in Entries("result") :
                k < Len(log) /\ log[k + 1].e \in {"capture", "forward"}

C19_Witness ==
  /\ def.dispatch
  /\ last.op = "method"
  /\ outcome = "none"
  /\ Cardinality(Entries("user")) >= 3
  /\ \E i \in Entries("forward") : Carries(i) /\ ReturnsOf(i) # {}

\* In-place rendering in a class that extends the base element.
InPlace == ~def.useShadowDOM /\ def.parent = "HTMLElement"

\* What a step may do to the child nodes, and what connectedCallback does in each case.
AttachmentStep ==
  /\ last'.op # "connect" => kids' = kids
  /\ last'.op = "connect" /\ InPlace /\ frag = "full" => kids' = kids + 1 /\ frag' = "empty"
  /\ last'.op = "connect" /\ ~InPlace =>
       /\ outcome' = "none"
       /\ log' = <<>>
       /\ UNCHANGED <<hs, snap, attrs, lst, disp, run, frag, kids>>

\* C20: an instance has no child nodes after construction and gets none except by
\* connectedCallback; with in-place rendering connectedCallback appends the fragment
\* built at construction; with isolated rendering, or when another element class is
\* extended, connectedCallback changes nothing.
C20_DeferredAttachment ==
  /\ last.op = "construct" => kids = 0
  /\ [][AttachmentStep]_vars

C20_Witness ==
  /\ InPlace
  /\ last.op = "connect"
  /\ kids = 1
  /\ frag = "empty"
  /\ disp

\* The transitions an operation dispatches itself: the calls in the log that are not the
\* setter an attribute notification dispatches.
OwnCalls(l) == {i \in 1..Len(l) : l[i].e = "call" /\ (i = 1 \/ l[i - 1].e # "acc")}

AccessorStep ==
  /\ last'.op = "getProperty" =>
       /\ log' = <<Ev("get", last'.n, Undef, Get(snap, last'.n), Undef)>>
       /\ snap' = snap
       /\ attrs' = attrs
       /\ hs' = hs
  /\ last'.op = "setProperty" =>
       /\ OwnCalls(log') = {1}
       /\ log'[1].n = SetterOf(exposedProps[last'.n]).f
       /\ log'[1].w = Obj(<< <<last'.n, last'.v>> >>)

C16_ExposedMethods ==
  last.op = "method" =>
    /\ OwnCalls(log) = {1}
    /\ log[1].n = exposedMethods[last.n].f
    /\ log[1].w = Undef
    /\ Len(log) >= 3
    /\ log[2].e = "result"
    /\ log[3] = Ev("capture", "", log[3].u, log[2].w, Undef)
    /\ \E j \in Entries("sync") :
         j > 3 /\ log[j].n = "count-x" /\ log[j].v = Get(log[2].w, "countX")

C16_Witness ==
  /\ last = Op("method", "fire", Num("5"))
  /\ log[1] = Ev("call", "Fire", log[1].u, log[1].v, Undef)
  /\ Get(log[1].u, "countX") \notin {Num("0"), Str("0")}
  /\ attrs["count-x"] = Str("0")

\* The keys of an object, as a set.
KeySet(ob) == {Keys(ob)[i] : i \in 1..Len(Keys(ob))}

\* C18: every application of the default setter to a state and a payload {n: v} returns
\* a state in which n is v and every other key of the state has the value it had, with
\* no further keys, and leaves the state object it was given as it was.
C18_ShallowPatch ==
  \A i \in Entries("call") :
    log[i].n = "PatchState" =>
      /\ i < Len(log)
      /\ log[i + 1].e = "result"
      /\ KeySet(log[i + 1].w) = KeySet(log[i].u) \cup KeySet(log[i].w)
      /\ \A k \in KeySet(log[i].w) : Get(log[i + 1].w, k) = Get(log[i].w, k)
      /\ \A k \in KeySet(log[i].u) \ KeySet(log[i].w) : Get(log[i + 1].w, k) = Get(log[i].u, k)
      /\ log[i + 1].u = log[i].u

C18_Witness ==
  /\ last = Op("setProperty", "countX", Num("5"))
  /\ log[1] = Ev("call", "PatchState", log[1].u, log[1].v, Obj(<< <<"countX", Num("5")>> >>))
  /\ Get(log[1].u, "countX") # Num("5")
  /\ Has(log[1].u, "hidden")
  /\ log[2] = Ev("result", "PatchState", log[1].u, Undef, Put(log[1].u, "countX", Num("5")))

SecondSyncStep ==
  last.op = "sync" /\ last'.op = "sync" =>
    /\ attrs' = attrs
    /\ snap' = snap
    /\ lst' = lst
    /\ hs' = hs
    /\ \A i \in 1..Len(log') : log'[i].e \notin {"call", "acc"}

\* C22: a syncAttributes that directly follows a syncAttributes, with no operation in
\* between, leaves every attribute, the snapshot, the listeners and the runtime's state
\* as the first left them, and dispatches no transition.
C22_SyncIdempotent == [][SecondSyncStep]_vars

C22_Witness ==
  /\ last = Op("sync", "sync", Undef)
  /\ ~disp
  /\ Get(snap, "hidden") = False
  /\ \E i \in Entries("removeattr") : log[i] = Ev("removeattr", "hidden", Null, Null, Undef)
  /\ \E i \in Entries("setattr") : log[i].n = "count-x" /\ log[i].u = log[i].v

NoOpStep ==
  /\ \A i \in 1..Len(log') :
       log'[i].e = "setattr" /\ log'[i].u = log'[i].v => i = Len(log') \/ log'[i + 1].e # "acc"
  /\ last'.op = "setAttribute" /\ attrs[last'.n] = ToStr(last'.v) =>
       /\ log' = <<Ev("setattr", last'.n, attrs[last'.n], attrs[last'.n], last'.v)>>
       /\ UNCHANGED <<hs, snap, attrs, lst>>

\* C23: a notification whose old and new value are identical (an attribute set to the
\* value it has, by the host or by a sync) dispatches no transition and leaves the
\* runtime's state, the snapshot, the attributes and the listeners as they were.
C23_InwardNoOpGuard == [][NoOpStep]_vars

C23_Witness ==
  /\ last = Op("setAttribute", "label", Str("x"))
  /\ log = <<Ev("setattr", "label", Str("x"), Str("x"), Str("x"))>>
  /\ Get(snap, "label") = Str("x")

\* The field a descriptor's values are stored under: propName, or attrName without one.
FieldName(cfg) == IF cfg.propName # "" THEN cfg.propName ELSE cfg.attrName

HandlerAttrs ==
  {ToLowerCase(exposedConfig[i].attrName) :
     i \in {j \in 1..Len(exposedConfig) : exposedConfig[j].eventType # "" /\ exposedConfig[j].attrName # ""}}

HandlerAttrStep ==
  \A a \in HandlerAttrs :
    /\ \A i \in 1..Len(log') :
         /\ log'[i].e = "sync" => log'[i].n # a
         /\ log'[i].e \in {"setattr", "removeattr"} /\ log'[i].n = a =>
              i = 1 /\ last'.op \in {"setAttribute", "removeAttribute"} /\ last'.n = a
    /\ attrs'[a] # attrs[a] => last'.op \in {"setAttribute", "removeAttribute"} /\ last'.n = a

\* C25: the attribute of a descriptor with an eventType is never written by a sync: it
\* is set or removed only by the host's own setAttribute or removeAttribute, also when
\* the snapshot holds a handler for the field.
C25_HandlerNotReflected == [][HandlerAttrStep]_vars

C25_Witness ==
  /\ last = Op("setProperty", "onfoo", Fn("A"))
  /\ outcome = "none"
  /\ Get(snap, "onfoo") = Fn("A")
  /\ attrs["onfoo"] = Null
  /\ Entries("syncAttributes") # {}
  /\ \E i \in 1..Len(lst) : lst[i] = <<"Foo", Fn("A")>>

\* C26: the value every sync encodes into an attribute is the descriptor's getter applied
\* to the snapshot of that moment: the getter's result where the descriptor supplies a
\* getter, the snapshot's field otherwise.
C26_SyncReflectsGetter ==
  \A i \in Entries("sync") :
    LET cfg == exposedAttrs[log[i].n]
    IN log[i].v = GetterValue(cfg, cfg.propName, log[i].u)

\* C27: every sync is for a descriptor whose propName is a key of the snapshot of that
\* moment, and an attribute is set or removed only by such a sync or by the host's own
\* write: the attribute of a descriptor without propName, or whose key the snapshot
\* lacks, is left as it was.
C27_SyncOnlySnapshotKeys ==
  /\ \A i \in Entries("sync") :
       \E p \in DOMAIN exposedProps : exposedProps[p].attrName = log[i].n /\ Has(log[i].u, p)
  /\ \A i \in Entries("setattr") \cup Entries("removeattr") :
       \/ i = 1 /\ last.op \in {"setAttribute", "removeAttribute"} /\ last.n = log[i].n
       \/ i > 1 /\ log[i - 1].e = "sync" /\ log[i - 1].n = log[i].n

C27_Witness ==
  /\ last = Op("method", "forget", Undef)
  /\ outcome = "none"
  /\ ~Has(snap, "hidden")
  /\ attrs["hidden"] = Str("")
  /\ attrs["label"] = Str("x")
  /\ Get(snap, "label") = Str("x")
  /\ \E i \in Entries("sync") : log[i].n = "count-x"

\* The instance the last operation was on, and the state of each instance.
Actor(l) == l[1].v
StateOfFirst == <<hs, snap, attrs, lst>>
StateOfSecond == <<peer.hs, peer.snap, peer.attrs, peer.lst>>

IsolationStep ==
  /\ Actor(log') = Instance => StateOfSecond' = StateOfSecond
  /\ Actor(log') = Other => StateOfFirst' = StateOfFirst
  /\ \A i \in 1..Len(log') :
       /\ log'[i].e \in {"call", "effect"} => log'[i].v \in {Actor(log'), Undef}
       /\ log'[i].e = "invoke" => log'[i].w = Actor(log')

\* C21: with two live instances of a class, an operation on one leaves the other's
\* runtime state, snapshot, attributes and listeners as they were, and every transition,
\* effect and listener it runs has the instance operated on as its receiver (or none),
\* also when the transitions of both return the same effect tuple.
C21_InstanceIsolation == [][IsolationStep]_vars

BindStep ==
  shared' # shared =>
    /\ shared'.wrapped \in {True, Undef}
    /\ shared'.wrapped = True <=> Truthy(shared.wrapped)
    /\ shared'.f = shared.f

\* C28: the function the interceptor binds has "$isWrapped" set to true exactly when the
\* function it was bound from had a truthy "$isWrapped", and has none otherwise, each
\* time the function kept in an effect tuple is bound again.
C28_WrappedMarker == [][BindStep]_vars

C28_Witness ==
  /\ last = Op("method", "ping", Undef)
  /\ Actor(log) = Other
  /\ shared.bound = Instance
  /\ shared.wrapped = True

\* C29: every argument the interceptor forwards to the dispatch it wraps is a state
\* with its effects; a bare state, a function and an action with its payload are not
\* forwarded as they came.
C29_ShapeNormalised ==
  \A i \in Entries("forward") : log[i].n = "tuple"

\* A transition function of the last operation threw: it was called and returned nothing.
Threw(l) == \E i \in 1..Len(l) : l[i].e = "call" /\ (i = Len(l) \/ l[i + 1].e # "result")

ContainedStep ==
  Threw(log') =>
    /\ outcome' = "none"
    /\ snap' = snap

\* C30: when a transition function throws, the host operation that dispatched it (a
\* property write, an attribute change, a method call) ends without an exception, and
\* the snapshot is the one from before the operation.
C30_ThrowContained == [][ContainedStep]_vars

\* The host assigns to a handler property a string that `new Function` rejects.
BadHandlerWrite(o) ==
  /\ o.op = "setProperty"
  /\ exposedProps[o.n].eventType # ""
  /\ o.v.t = "string"
  /\ ~Compiles(o.v.s)

CompileFailureStep ==
  BadHandlerWrite(last') =>
    /\ outcome' = "none"
    /\ \A i \in 1..Len(lst') : lst'[i][1] # exposedProps[last'.n].eventType
    /\ \A k \in (KeySet(snap) \cup KeySet(snap')) \ {last'.n} : Get(snap', k) = Get(snap, k)

\* C31: a write to a handler field of a string that cannot be compiled into a callable
\* ends without an exception reaching the host, leaves no listener registered for the
\* field, and leaves every other field of the snapshot as it was.
C31_CompileFailureNonFatal == [][CompileFailureStep]_vars

\* The fields of the descriptors that have an eventType.
HandlerFields ==
  {FieldName(exposedConfig[i]) : i \in {j \in 1..Len(exposedConfig) : exposedConfig[j].eventType # ""}}

CallableOrNull(v) == v.t \in {"function", "null"}

\* C32: once a handler field has been written, by property or by attribute, the value
\* the snapshot holds for it is a callable or null; the newVal every listener-sync effect
\* is given is a callable or null; and every registered listener is a callable.
C32_HandlerCallableOrNull ==
  /\ \A p \in HandlerFields : Has(snap, p) => CallableOrNull(Get(snap, p))
  /\ \A i \in Entries("effect") :
       log[i].n = "setOnEventListenerEffect" => CallableOrNull(Get(log[i].w, "newVal"))
  /\ \A i \in 1..Len(lst) : lst[i][2].t = "function"

\* The notifications that got past the guard in the last operation.
Cascade == Cardinality(Entries("acc"))

\* C33: every host write (a property write, an attribute set or removal) ends after
\* finitely many transitions and attribute mutations: the cascade of sync, notification
\* and transition it starts is never cut short for being too deep.
C33_FeedbackTermination == ~over

C33_Witness ==
  /\ last = Op("setAttribute", "hidden", Str("hidden"))
  /\ Cascade >= 3
  /\ ~over
  /\ outcome = "none"
  /\ attrs["hidden"] = Null
  /\ Get(snap, "hidden") = False

\* A descriptor with both names, no eventType and no getter of its own.
PlainReflected(cfg) ==
  cfg.attrName # "" /\ cfg.propName # "" /\ cfg.eventType = "" /\ cfg.getter = ""

\* C34: after the host has assigned v (a boolean, a number, a string, the empty string or
\* null) to the property of a reflected descriptor with the default setter and getter,
\* and the assignment has returned, reading the property yields v, whatever the field
\* held before.
C34_PropertyReadBack ==
  /\ last.op = "setProperty"
  /\ outcome = "none"
  /\ PlainReflected(exposedProps[last.n])
  /\ last.v.t \in {"boolean", "number", "string", "null"}
  => GetProperty(Cur, last.n) = last.v

\* The invocations of the interceptor in a log that carried a state and whose forwarded
\* dispatch did not return, and the captures in it.
FailedForwards(l) ==
  {i \in 1..Len(l) :
     /\ l[i].e = "forward"
     /\ l[i].n \in {"tuple", "state"}
     /\ l[i].v # Undef
     /\ \A j \in 1..Len(l) : ~(l[j].e = "returned" /\ l[j].u = Num(ToString(i)))}
Captures(l) == {i \in 1..Len(l) : l[i].e = "capture"}

FailedForwardStep ==
  /\ \A i \in FailedForwards(log') :
       i > 1 /\ log'[i - 1].e = "capture" /\ log'[i - 1].v = log'[i].v
  /\ outcome' # "none" /\ FailedForwards(log') # {} =>
       /\ snap' = log'[MaxOf(Captures(log'))].v
       /\ hs' = snap'
       /\ \A j \in 1..Len(log') :
            j > MinOf(FailedForwards(log')) =>
              log'[j].e \notin {"syncAttributes", "sync", "setattr", "removeattr"}
       /\ \A j \in 1..Len(log') : log'[j].e \notin {"setattr", "removeattr"} => attrs' = attrs
  /\ outcome' = "none" /\ Captures(log') # {} /\ FailedForwards(log') = {} =>
       \A i \in Reflected :
         Has(snap', exposedConfig[i].propName) =>
           attrs'[ToLowerCase(exposedConfig[i].attrName)] = Encoding(Get(snap', exposedConfig[i].propName))

\* C35: when the dispatch the interceptor forwards a state to (or an effect it runs)
\* throws, the snapshot has already been replaced by that state and the sync of the
\* invocation is not made: the attributes stay as they were, and they are the encoding
\* of the snapshot again once a later dispatch that carries a state has completed.
C35_FailureDuringForwarding == [][FailedForwardStep]_vars

C35_Witness ==
  /\ last = Op("method", "boom", Undef)
  /\ outcome = "Error"
  /\ Get(snap, "countX") = Num("9")
  /\ hs = snap
  /\ attrs["count-x"] = Str("0")
  /\ FailedForwards(log) # {}

\* The instance is live: it holds the runtime's dispatch and the runtime has not halted.
Live == disp /\ run

SnapshotWriteStep ==
  snap' # snap => Captures(log') # {} /\ snap' = log'[MaxOf(Captures(log'))].v

\* C36: between host operations on a live instance the snapshot is the state the runtime
\* holds, whatever shapes the dispatches had and with or without a dispatch initialiser
\* of the definition; and the snapshot changes only by a capture of the interceptor.
C36_SnapshotTracksRuntime == [](Live => snap = hs) /\ [][SnapshotWriteStep]_vars

C36_Witness ==
  /\ Live
  /\ def.dispatch
  /\ last.op = "dispatch"
  /\ last.n = "tuple"
  /\ snap = hs
  /\ log[1].u # last.v
  /\ Cardinality(Captures(log)) >= 2
  /\ \E i \in Entries("user") : log[i].n = "tuple"

\* C37: when the constructor has returned, the snapshot is init, every exposed property
\* reads the value init gives it, and every reflected attribute carries the outward
\* encoding of init's value.
C37_ConstructionReflectsInit ==
  last.op = "construct" =>
    /\ snap = InitState
    /\ \A p \in DOMAIN exposedProps : GetProperty(Cur, p) = GetterValue(exposedProps[p], p, InitState)
    /\ \A i \in Reflected :
         Has(InitState, exposedConfig[i].propName) =>
           AttrOf(i) = Encoding(Get(InitState, exposedConfig[i].propName))

\* The applications of followUpAction in a log, and the state the original action (or
\* the action it handed on to) returned before an entry.
FollowUps(l) == {i \in 1..Len(l) : l[i].e = "followUp"}
ResultBefore(l, i) == l[MaxOf({j \in 1..i : l[j].e = "result"})].u

ChainStep ==
  last'.op = "chained" =>
    /\ Cardinality(FollowUps(log')) = 1
    /\ \A i \in FollowUps(log') :
         /\ log'[i].v = chain.bindTo
         /\ log'[i].w = chain.followUpProps
         /\ \E j \in 1..i : log'[j].e = "result"
         /\ log'[i].u = ResultBefore(log', i)

\* C38: each dispatch of the action chainActions returns applies followUpAction exactly
\* once, with followUpProps, to the state originalAction's result put in place, with
\* bindTo as its receiver: whether originalAction returns a state, a state with effects
\* or an action with its payload, and also when it returns the same array each time.
C38_FollowUpOnce == [][ChainStep]_vars

\* A descriptor that names neither an attribute nor a property.
Nameless(cfgs) == {i \in 1..Len(cfgs) : cfgs[i].attrName = "" /\ cfgs[i].propName = ""}

\* C14: generating a class from a descriptor list that holds a descriptor with neither
\* attrName nor propName fails, and no class is produced.
C14_ConfigurationError == Nameless(config) # {} => gen.class # "generated"

\* The descriptors whose attribute name is the given name up to letter case.
SameName(cfgs, name) ==
  {i \in 1..Len(cfgs) : cfgs[i].attrName # "" /\ ToLowerCase(cfgs[i].attrName) = ToLowerCase(name)}

\* C17: the observed attributes of a generated class are exactly the lower-cased attrName
\* values of the descriptors that have one, and a name looked up resolves to the (last)
\* descriptor with that attribute name up to letter case, however the name given and
\* the descriptor spell it.
C17_AttributeNameFolding ==
  gen.class = "generated" =>
    /\ observedAttributes(gen) =
         {ToLowerCase(config[i].attrName) : i \in {j \in 1..Len(config) : config[j].attrName # ""}}
    /\ probe # NoProbe =>
         probe.cfg = IF SameName(config, probe.name) = {} THEN NoDesc
                     ELSE config[MaxOf(SameName(config, probe.name))]
    /\ \A n1 \in GivenNames : \A n2 \in GivenNames :
         ToLowerCase(n1) = ToLowerCase(n2) => LookupAttr(gen, n1) = LookupAttr(gen, n2)

C17_Witness ==
  /\ config = << Desc("Count-X", "countX", "") >>
  /\ gen.class = "generated"
  /\ observedAttributes(gen) = {"count-x"}
  /\ probe = [name |-> "count-x", cfg |-> Desc("Count-X", "countX", "")]

====
